---- MODULE Spec2Model ----
(***************************************************************************)
(* kaishaku: named detached-HEAD sessions on top of git (src/kaishaku.c).  *)
(*                                                                         *)
(* One invocation of the tool is one atomic action: the tool is            *)
(* single-threaded and every command runs to completion (main, 1092-1116). *)
(* The state is the record store under .git/kaishaku, the .active file,    *)
(* the three configuration flags kept in git's local config, and the part  *)
(* of the repository the commands touch: the branches, the position of the *)
(* working tree and whether it holds uncommitted changes.                  *)
(*                                                                         *)
(* Every git command and every file write may fail for a reason the tool   *)
(* does not see; a command takes the failing step as an input.             *)
(***************************************************************************)
EXTENDS Integers, Sequences, FiniteSets, TLC

\* ------------------------------------------------------------- bounds ---
MaxCommits == 2
MaxTime == 1

\* Names the user passes on the command line.
NULL == ""
SessNames == {"a", "main"}
BranchArgs == {"t"}
BranchNames == {"main", "t"}
CommitIds == <<"c1", "c2", "c3", "c4">>
Decimal == <<"0", "1", "2", "3", "4">>
Fields == {"session", "head", "time", "desc"}
ExitOptions == {NULL, "--force", "--keep", "--save", "--no-save"}
ConfigKeys == {"confirm.exit", "auto.stash", "auto.save"}

VARIABLES
    dirs,     \* the session directories that exist under .git/kaishaku
    rec,      \* rec[n][f]: first line of file f of session n, NULL when absent
    active,   \* first line of .git/kaishaku/.active, NULL when absent
    br,       \* br[b]: commit at the tip of branch b, NULL when b does not exist
    on,       \* the branch HEAD is attached to, NULL when detached
    at,       \* the commit HEAD resolves to
    dirty,    \* git status --porcelain prints something
    nc,       \* number of commits of the repository
    config,   \* the flags of struct config as git's local config holds them
    now,      \* time(NULL)
    opened,   \* history: sessions opened and not aborted or cleaned since
    last      \* the last invocation: command, first argument, outcome

vars == <<dirs, rec, active, br, on, at, dirty, nc, config, now, opened, last>>

NoFiles == [f \in Fields |-> NULL]

\* ------------------------------------------------------ static buffers ---
\* safe_path_join and read_from_file return a pointer to one static buffer:
\* a pointer returned by an earlier call shows what the latest call wrote.
\* `cur` is the buffer now, `old` what it held when the pointer was returned.
owned_path(cur, old) == old

static_path(cur, old) == cur

static_buffer(cur, old) == cur

\* snprintf(path_buffer, ..., "%s/%s", dir, file). In SESSION_FILE and its
\* siblings dir is path_buffer itself; the copy of a string onto itself
\* leaves it as it is, and the file name is appended (the function is pinned
\* to -O2 for this, line 127).
safe_path_join(dir, file) == [d |-> dir, f |-> file]

SESSION_DIR(session) == [d |-> session, f |-> NULL]

SESSION_FILE(session) == safe_path_join(SESSION_DIR(session).d, "session")

HEAD_FILE(session) == safe_path_join(SESSION_DIR(session).d, "head")

SESSION_TIME_FILE(session) == safe_path_join(SESSION_DIR(session).d, "time")

SESSION_DESC_FILE(session) == safe_path_join(SESSION_DIR(session).d, "desc")

\* ------------------------------------------------------- record store ---
\* The state a handler threads through its steps.
Cur ==
    [dirs |-> dirs, rec |-> rec, active |-> active, br |-> br, on |-> on,
     at |-> at, dirty |-> dirty, nc |-> nc, cmds |-> <<>>, ok |-> TRUE,
     val |-> NULL, count |-> 0, out |-> "", code |-> 0]

IsDir(s, p) == p.f = NULL /\ p.d \in s.dirs

IsFile(s, p) == p.f \in Fields /\ p.d \in s.dirs /\ s.rec[p.d][p.f] # NULL

\* A test that takes every path as present.
file_assumed(s, p) == TRUE

file_exists(s, p) == IsDir(s, p) \/ IsFile(s, p)

\* stat/mkdir: an existing directory is accepted as it is.
ensure_directory_exists(s, p, ok) ==
    IF IsDir(s, p) THEN [s EXCEPT !.ok = TRUE]
    ELSE IF ok /\ p.d \in SessNames /\ p.f = NULL
         THEN [s EXCEPT !.ok = TRUE, !.dirs = @ \cup {p.d}]
         ELSE [s EXCEPT !.ok = FALSE]

\* fopen(path, "w") fails when the directory is missing or for a reason of
\* the file system; the file is then left as it was.
\* A write that reports its result and leaves the file as it was.
write_dropped(s, p, content, ok) == [s EXCEPT !.ok = ok]

write_to_file(s, p, content, ok) ==
    IF ok /\ p.f \in Fields /\ p.d \in s.dirs
    THEN [s EXCEPT !.ok = TRUE, !.rec[p.d][p.f] = content]
    ELSE [s EXCEPT !.ok = FALSE]

write_active(s, content, ok) ==
    IF ok THEN [s EXCEPT !.ok = TRUE, !.active = content]
    ELSE [s EXCEPT !.ok = FALSE]

\* The first line of the file, NULL when it cannot be opened.
read_from_file(s, p) == IF IsFile(s, p) THEN s.rec[p.d][p.f] ELSE NULL

unlink(s, p) ==
    IF IsFile(s, p) THEN [s EXCEPT !.ok = TRUE, !.rec[p.d][p.f] = NULL]
    ELSE [s EXCEPT !.ok = FALSE]

unlink_active(s) == [s EXCEPT !.active = NULL]

\* rmdir succeeds on an empty directory only.
rmdir(s, p) ==
    IF IsDir(s, p) /\ s.rec[p.d] = NoFiles
    THEN [s EXCEPT !.ok = TRUE, !.dirs = @ \ {p.d}]
    ELSE [s EXCEPT !.ok = FALSE]

\* snprintf(timestamp, ..., "%ld", (long)now)
FormatTime(t) == Decimal[t + 1]

update_timestamp(s, session, t, ok) ==
    [write_to_file(s, SESSION_TIME_FILE(session), FormatTime(t), ok) EXCEPT !.ok = s.ok]

\* -------------------------------------------------------- git gateway ---
Commits(s) == {CommitIds[i] : i \in 1..s.nc}

IsBranch(s, x) == x \in BranchNames /\ s.br[x] # NULL

Resolves(s, x) == x = "HEAD" \/ IsBranch(s, x) \/ x \in Commits(s)

CommitOf(s, x) == IF x = "HEAD" THEN s.at ELSE IF IsBranch(s, x) THEN s.br[x] ELSE x

Issue(s, cmd, arg, ok) == [s EXCEPT !.ok = ok, !.cmds = Append(@, <<cmd, arg, ok>>)]

\* git rev-parse --abbrev-ref HEAD: the branch name, "HEAD" when detached.
rev_parse_detached(s) == "HEAD"

rev_parse_abbrev_ref(s) == IF s.on # NULL THEN s.on ELSE "HEAD"

git_abbrev_ref(s, ok) ==
    [Issue(s, "rev-parse --abbrev-ref", "HEAD", ok) EXCEPT !.val = IF ok THEN rev_parse_abbrev_ref(s) ELSE NULL]

git_rev_parse_head(s, ok) ==
    [Issue(s, "rev-parse", "HEAD", ok) EXCEPT !.val = IF ok THEN s.at ELSE NULL]

git_verify(s, x) == Issue(s, "rev-parse --verify", x, Resolves(s, x))

\* git checkout <x> --detach
git_checkout_detach(s, x, ok) ==
    IF ok /\ Resolves(s, x)
    THEN [Issue(s, "checkout --detach", x, TRUE) EXCEPT !.on = NULL, !.at = CommitOf(s, x)]
    ELSE Issue(s, "checkout --detach", x, FALSE)

\* git checkout <x>: attaches to a branch, detaches at a commit.
git_checkout(s, x, ok) ==
    IF ok /\ Resolves(s, x)
    THEN IF x = "HEAD" THEN Issue(s, "checkout", x, TRUE)
         ELSE IF IsBranch(s, x)
              THEN [Issue(s, "checkout", x, TRUE) EXCEPT !.on = x, !.at = s.br[x]]
              ELSE [Issue(s, "checkout", x, TRUE) EXCEPT !.on = NULL, !.at = x]
    ELSE Issue(s, "checkout", x, FALSE)

\* git checkout -b <x>: a new branch at the current position.
git_checkout_b(s, x, ok) ==
    IF ok /\ x \in BranchNames /\ s.br[x] = NULL
    THEN [Issue(s, "checkout -b", x, TRUE) EXCEPT !.br[x] = s.at, !.on = x]
    ELSE Issue(s, "checkout -b", x, FALSE)

\* git merge <x> into the current position (a fast-forward or up to date).
git_merge(s, x, ok) ==
    IF ok /\ Resolves(s, x)
    THEN IF s.on # NULL
         THEN [Issue(s, "merge", x, TRUE) EXCEPT !.br[s.on] = CommitOf(s, x), !.at = CommitOf(s, x)]
         ELSE [Issue(s, "merge", x, TRUE) EXCEPT !.at = CommitOf(s, x)]
    ELSE Issue(s, "merge", x, FALSE)

\* git branch -D <x>: git refuses to delete the branch that is checked out.
git_branch_D(s, x, ok) ==
    IF ok /\ IsBranch(s, x) /\ s.on # x
    THEN [Issue(s, "branch -D", x, TRUE) EXCEPT !.br[x] = NULL]
    ELSE Issue(s, "branch -D", x, FALSE)

\* git status --porcelain, first line captured: no output counts as failure.
git_status(s, ok) == Issue(s, "status --porcelain", NULL, ok /\ s.dirty)

\* git commit -m: a new commit at HEAD; unstaged changes may remain.
git_commit(s, ok, rest) ==
    IF ok /\ s.dirty /\ s.nc < MaxCommits
    THEN LET c == CommitIds[s.nc + 1]
             t == [Issue(s, "commit", NULL, TRUE) EXCEPT !.nc = s.nc + 1, !.at = c, !.dirty = rest]
         IN  IF s.on # NULL THEN [t EXCEPT !.br[s.on] = c] ELSE t
    ELSE Issue(s, "commit", NULL, FALSE)

git_stash_push(s, ok) ==
    IF ok /\ s.dirty THEN [Issue(s, "stash push", NULL, TRUE) EXCEPT !.dirty = FALSE]
    ELSE Issue(s, "stash push", NULL, FALSE)

git_reset_hard(s, ok) ==
    IF ok THEN [Issue(s, "reset --hard", NULL, TRUE) EXCEPT !.dirty = FALSE]
    ELSE Issue(s, "reset --hard", NULL, FALSE)

\* --------------------------------------------------------- outcomes ---
\* exit(EXIT_FAILURE) after an error message.
Fail(s) == [s EXCEPT !.out = "error", !.code = 1]

\* The handler returns and main returns 0.
Done(s) == [s EXCEPT !.out = "ok", !.code = 0]

\* usage() prints the help and calls exit(0).
usage(s) == [s EXCEPT !.out = "usage", !.code = 0]

\* Step k of a handler fails for an outside reason when the input f is k.
Ok(f, k) == f # k

\* ------------------------------------------------------------ handlers ---
\* kaishaku checkout <session> [<commit>]: "open". t is time(NULL), f the
\* fatal step that fails, tw whether the time file can be written.
cmd_checkout(s0, session, commit, t, f, tw) ==
    IF session = NULL THEN usage(s0) ELSE
    LET s1 == ensure_directory_exists(s0, SESSION_DIR(session), Ok(f, 1)) IN
    IF ~s1.ok THEN Fail(s1) ELSE
    LET s2 == git_abbrev_ref(s1, Ok(f, 2))
        current_branch == s2.val IN
    IF ~s2.ok THEN Fail(s2) ELSE
    LET s3 == write_to_file(s2, SESSION_FILE(session), current_branch, Ok(f, 3)) IN
    IF ~s3.ok THEN Fail(s3) ELSE
    LET s4 == IF commit = NULL THEN git_rev_parse_head(s3, Ok(f, 4))
              ELSE [s3 EXCEPT !.val = commit]
        head_hash == s4.val IN
    IF ~s4.ok THEN Fail(s4) ELSE
    LET s5 == write_to_file(s4, HEAD_FILE(session), head_hash, Ok(f, 5)) IN
    IF ~s5.ok THEN Fail(s5) ELSE
    LET s6 == write_active(s5, session, Ok(f, 6)) IN
    IF ~s6.ok THEN Fail(s6) ELSE
    LET s7 == update_timestamp(s6, session, t, tw)
        s8 == git_checkout_detach(s7, head_hash, Ok(f, 7)) IN
    IF ~s8.ok THEN Fail(s8) ELSE Done(s8)

\* What resume writes to the session's record (line 345).
switch_rewrite_head(s, session, t, ok) ==
    write_to_file(update_timestamp(s, session, t, ok), HEAD_FILE(session), "HEAD", TRUE)

switch_touch(s, session, t, ok) == update_timestamp(s, session, t, ok)

\* kaishaku switch <session>: "resume".
cmd_switch(s0, session, t, f, tw) ==
    IF session = NULL THEN usage(s0) ELSE
    LET target_head == read_from_file(s0, HEAD_FILE(session)) IN
    IF target_head = NULL THEN Fail(s0) ELSE
    LET s1 == write_active(s0, session, Ok(f, 1)) IN
    IF ~s1.ok THEN Fail(s1) ELSE
    LET s2 == switch_touch(s1, session, t, tw)
        s3 == git_checkout_detach(s2, target_head, Ok(f, 2)) IN
    IF ~s3.ok THEN Fail(s3) ELSE Done(s3)

\* What branch-off records as the session's head (line 381).
branch_head_commit(s) == s.at

branch_head_ref(s) == "HEAD"

\* The record file branch-off rewrites (line 381).
branch_session_file(session) == SESSION_FILE(session)

branch_head_file(session) == HEAD_FILE(session)

\* kaishaku branch <name>: "branch-off".
cmd_branch(s0, branch_name, f) ==
    IF branch_name = NULL THEN usage(s0) ELSE
    IF s0.active = NULL THEN Fail(s0) ELSE
    LET s1 == git_checkout_b(s0, branch_name, Ok(f, 1)) IN
    IF ~s1.ok THEN Fail(s1) ELSE
    LET session == s1.active
        s2 == write_to_file(s1, branch_head_file(session), branch_head_ref(s1), Ok(f, 2)) IN
    IF ~s2.ok THEN Fail(s2) ELSE Done(s2)

\* The branch the successful save-back deletes (line 438).
save_delete_original(branch_name, original_branch) == original_branch

save_delete_target(branch_name, original_branch) == branch_name

\* kaishaku save <name>: "save-back". session and original_branch both point
\* to read_from_file's buffer; after the second read both show its result.
\* co, del, wr, tw: whether the non-fatal steps succeed.
cmd_save(s0, branch_name, t, f, co, del, wr, tw) ==
    IF branch_name = NULL THEN usage(s0) ELSE
    IF s0.active = NULL THEN Fail(s0) ELSE
    LET session0 == s0.active
        original_branch == read_from_file(s0, SESSION_FILE(session0)) IN
    IF original_branch = NULL THEN Fail(s0) ELSE
    LET session == static_buffer(original_branch, session0)
        s1 == git_checkout_b(s0, branch_name, Ok(f, 1)) IN
    IF ~s1.ok THEN Fail(s1) ELSE
    LET s2 == git_checkout(s1, original_branch, Ok(f, 2)) IN
    IF ~s2.ok THEN Fail(s2) ELSE
    LET s3 == git_merge(s2, branch_name, Ok(f, 3)) IN
    IF ~s3.ok
    THEN Fail(git_branch_D(git_checkout(s3, branch_name, co), branch_name, del))
    ELSE
    LET s4 == git_branch_D(s3, save_delete_target(branch_name, original_branch), del)
        s5 == write_to_file(s4, HEAD_FILE(session), "HEAD", wr)
        s6 == update_timestamp(s5, session, t, tw) IN
    Done(s6)

\* What exit does once the changes are dealt with and original_branch is
\* checked out (line 553).
exit_keep_active(s) == s

exit_finish(s) == unlink_active(s)

\* The flags of exit once the configuration is applied (lines 466-479).
exit_save_auto(option, cfg) == option = "--save" \/ cfg["auto.save"]

exit_save(option, cfg) ==
    option = "--save" \/ (cfg["auto.save"] /\ option # "--no-save")

exit_keep(option, cfg) ==
    option = "--keep"
        \/ (cfg["auto.stash"] /\ ~exit_save(option, cfg) /\ option # "--force")

\* The answer to the prompt is not y: "Aborted." and exit(0) (lines 492-495).
exit_declined_discards(s) ==
    [git_reset_hard(s, TRUE) EXCEPT !.out = "aborted", !.code = 0]

exit_declined(s) == [s EXCEPT !.out = "aborted", !.code = 0]

\* The stash of keep mode: a failure is a warning (lines 524-527).
exit_stash_fatal(s, ok) == git_stash_push(s, ok)

exit_stash(s, ok) == [git_stash_push(s, ok) EXCEPT !.ok = TRUE]

\* The reset of the discarding exit: a failure is fatal (lines 534-537).
exit_discard_lenient(s, ok) == [git_reset_hard(s, ok) EXCEPT !.ok = TRUE]

exit_discard(s, ok) == git_reset_hard(s, ok)

\* kaishaku exit [--force|--keep|--save|--no-save]. yes: the answer to the
\* prompt; st: whether git status succeeds; rest: whether changes remain
\* after the commit. Step 1 is the commit, the stash or the reset.
cmd_exit(s0, option, cfg, yes, f, st, rest) ==
    IF s0.active = NULL THEN Fail(s0) ELSE
    LET session == s0.active
        original_branch == read_from_file(s0, SESSION_FILE(session)) IN
    IF original_branch = NULL THEN Fail(s0) ELSE
    LET force == option = "--force"
        no_save == option = "--no-save"
        save == exit_save(option, cfg)
        keep == exit_keep(option, cfg)
        s1 == git_status(s0, st)
        has_changes == s1.ok IN
    IF ~force /\ ~keep /\ ~save /\ cfg["confirm.exit"] /\ has_changes /\ ~yes
    THEN exit_declined(s1) ELSE
    LET s2 == IF ~has_changes THEN [s1 EXCEPT !.ok = TRUE]
              ELSE IF save THEN git_commit(s1, Ok(f, 1), rest)
              ELSE IF keep THEN exit_stash(s1, Ok(f, 1))
              ELSE exit_discard(s1, Ok(f, 1)) IN
    IF ~s2.ok THEN Fail(s2) ELSE
    LET s3 == git_checkout(s2, original_branch, Ok(f, 2)) IN
    IF ~s3.ok THEN Fail(s3) ELSE Done(exit_finish(s3))

\* One round of the loop of "list" (lines 626-687): "corrupted" for the
\* warning, "listed" for the normal entry. session_file and head_file are one
\* pointer into path_buffer, which holds the head file's path.
list_entry(s, d_name) ==
    LET path_buffer == HEAD_FILE(d_name)
        session_file == static_path(path_buffer, SESSION_FILE(d_name))
        head_file == static_path(path_buffer, HEAD_FILE(d_name)) IN
    IF ~file_exists(s, session_file) \/ ~file_exists(s, head_file)
    THEN "corrupted" ELSE "listed"

\* kaishaku list: prints, changes nothing and returns.
cmd_list(s0) == Done(s0)

\* One round of the loop of "clean" without a session (lines 747-775).
\* session_dir, session_file and head_file all point to path_buffer, which
\* holds the head file's path when unlink and rmdir are called.
clean_entry(s, d_name) ==
    LET session_dir == SESSION_DIR(d_name) IN
    IF ~file_exists(s, session_dir) THEN s ELSE
    IF s.active # NULL /\ s.active = d_name THEN s ELSE
    LET path_buffer == HEAD_FILE(d_name)
        u1 == unlink(s, static_path(path_buffer, SESSION_FILE(d_name)))
        u2 == unlink(u1, static_path(path_buffer, HEAD_FILE(d_name)))
        u3 == rmdir(u2, static_path(path_buffer, session_dir)) IN
    [u3 EXCEPT !.count = @ + 1]

RECURSIVE clean_all(_, _)
clean_all(s, todo) ==
    IF todo = {} THEN s
    ELSE LET d_name == CHOOSE d \in todo : TRUE
         IN  clean_all(clean_entry(s, d_name), todo \ {d_name})

\* kaishaku clean [<session>]: "purge".
cmd_clean(s0, session) ==
    IF s0.active # NULL /\ (session = NULL \/ session = s0.active) THEN Fail(s0) ELSE
    IF session # NULL
    THEN LET session_dir == SESSION_DIR(session) IN
         IF ~file_exists(s0, session_dir) THEN Fail(s0) ELSE
         LET path_buffer == HEAD_FILE(session)
             u1 == unlink(s0, static_path(path_buffer, SESSION_FILE(session))) IN
         IF ~u1.ok THEN Fail(u1) ELSE
         LET u2 == unlink(u1, static_path(path_buffer, HEAD_FILE(session))) IN
         IF ~u2.ok THEN Fail(u2) ELSE
         LET u3 == rmdir(u2, static_path(path_buffer, session_dir)) IN
         IF ~u3.ok THEN Fail(u3) ELSE Done(u3)
    ELSE Done(clean_all(s0, s0.dirs))

\* kaishaku recover <session>. session_file and head_file are one pointer,
\* and so are original_branch and head.
cmd_recover(s0, session, f) ==
    IF session = NULL THEN usage(s0) ELSE
    IF ~file_exists(s0, SESSION_DIR(session)) THEN Fail(s0) ELSE
    IF s0.active # NULL /\ s0.active = session THEN Fail(s0) ELSE
    LET path_buffer == HEAD_FILE(session)
        session_file == static_path(path_buffer, SESSION_FILE(session))
        head_file == static_path(path_buffer, HEAD_FILE(session)) IN
    IF ~file_exists(s0, session_file) \/ ~file_exists(s0, head_file) THEN Fail(s0) ELSE
    LET head == read_from_file(s0, head_file)
        original_branch == static_buffer(head, read_from_file(s0, session_file))
        s1 == git_verify(s0, original_branch)
        s2 == IF s1.ok THEN s1 ELSE git_checkout_b(s1, original_branch, Ok(f, 1)) IN
    IF ~s2.ok THEN Fail(s2) ELSE
    LET s3 == write_active(s2, session, Ok(f, 2)) IN
    IF ~s3.ok THEN Fail(s3) ELSE
    LET s4 == git_checkout_detach(s3, head, Ok(f, 3)) IN
    IF ~s4.ok THEN Fail(s4) ELSE Done(s4)

\* rename(2) of a directory: the records move with it.
rename_dir(s, old, new, ok) ==
    IF ~ok \/ ~IsDir(s, old) \/ new.d \notin SessNames THEN [s EXCEPT !.ok = FALSE]
    ELSE IF old = new THEN [s EXCEPT !.ok = TRUE]
    ELSE IF new.d \in s.dirs /\ s.rec[new.d] # NoFiles THEN [s EXCEPT !.ok = FALSE]
    ELSE [s EXCEPT !.ok = TRUE,
                   !.dirs = (@ \ {old.d}) \cup {new.d},
                   !.rec = [@ EXCEPT ![new.d] = s.rec[old.d], ![old.d] = NoFiles]]

\* kaishaku rename <old> <new>. old_dir and new_dir are one pointer.
cmd_rename(s0, old_name, new_name, f) ==
    IF old_name = NULL \/ new_name = NULL THEN usage(s0) ELSE
    LET path_buffer == SESSION_DIR(new_name)
        old_dir == static_path(path_buffer, SESSION_DIR(old_name))
        new_dir == static_path(path_buffer, SESSION_DIR(new_name)) IN
    IF ~file_exists(s0, old_dir) THEN Fail(s0) ELSE
    IF file_exists(s0, new_dir) THEN Fail(s0) ELSE
    IF s0.active # NULL /\ s0.active = old_name THEN Fail(s0) ELSE
    LET s1 == rename_dir(s0, old_dir, new_dir, Ok(f, 1)) IN
    IF ~s1.ok THEN Fail(s1) ELSE Done(s1)

\* kaishaku abort [<session>]. Without an argument session points to
\* read_from_file's buffer, which the read of the session file overwrites.
\* The five paths of the clean-up are one pointer into path_buffer, which
\* holds the desc file's path when unlink and rmdir are called.
cmd_abort(s0, arg, f) ==
    IF arg = NULL /\ s0.active = NULL THEN Fail(s0) ELSE
    LET session0 == IF arg = NULL THEN s0.active ELSE arg
        session_dir == SESSION_DIR(session0) IN
    IF ~file_exists(s0, session_dir) THEN Fail(s0) ELSE
    LET is_active == s0.active # NULL /\ s0.active = session0
        original_branch == IF is_active THEN read_from_file(s0, SESSION_FILE(session0)) ELSE NULL
        buffer == IF original_branch # NULL THEN original_branch
                  ELSE IF s0.active # NULL THEN s0.active ELSE session0
        session == IF arg = NULL THEN static_buffer(buffer, session0) ELSE session0
        s1 == IF original_branch # NULL THEN git_checkout(s0, original_branch, Ok(f, 1)) ELSE s0 IN
    IF ~s1.ok THEN Fail(s1) ELSE
    LET s2 == IF original_branch # NULL THEN unlink_active(s1) ELSE s1
        path_buffer == SESSION_DESC_FILE(session)
        u1 == unlink(s2, static_path(path_buffer, SESSION_FILE(session)))
        u2 == unlink(u1, static_path(path_buffer, HEAD_FILE(session)))
        u3 == unlink(u2, static_path(path_buffer, SESSION_TIME_FILE(session)))
        u4 == unlink(u3, static_path(path_buffer, SESSION_DESC_FILE(session)))
        u5 == rmdir(u4, static_path(path_buffer, session_dir)) IN
    Done(u5)

\* kaishaku config set <key> <value>: the flag is kept when git config
\* succeeds; an unknown key is an error.
cmd_config_set(cfg, key, value, ok) ==
    IF key \in ConfigKeys /\ ok THEN [cfg EXCEPT ![key] = value] ELSE cfg

\* ------------------------------------------------------------- actions ---
\* What the last invocation was, its first argument and how it ended; "idle"
\* once the prompt is back. Commands start from the prompt.
Idle == [op |-> "idle", arg |-> NULL, out |-> "ok"]

Init ==
    /\ dirs = {}
    /\ rec = [n \in SessNames |-> NoFiles]
    /\ active = NULL
    /\ br = [b \in BranchNames |-> IF b = "main" THEN CommitIds[1] ELSE NULL]
    /\ on = "main"
    /\ at = CommitIds[1]
    /\ dirty = FALSE
    /\ nc = 1
    /\ config = [k \in ConfigKeys |-> k = "confirm.exit"]
    /\ now = 0
    /\ opened = {}
    /\ last = Idle

\* The state a handler leaves behind.
Apply(r) ==
    /\ dirs' = r.dirs
    /\ rec' = r.rec
    /\ active' = r.active
    /\ br' = r.br
    /\ on' = r.on
    /\ at' = r.at
    /\ dirty' = r.dirty
    /\ nc' = r.nc

Prompt == last.op = "idle"

Ran(op, arg, r) == last' = [op |-> op, arg |-> arg, out |-> r.out]

SessArgs == SessNames \cup {NULL}

CommitArgs == {CommitIds[i] : i \in 1..MaxCommits} \cup {NULL}

\* The inputs of each command: its arguments, and which of its steps fail for
\* an outside reason. A combination that differs from another only in a step
\* the handler cannot reach is left out.
OpenInputs ==
    {i \in [n : SessArgs, c : CommitArgs, f : 0..7, tw : BOOLEAN] :
        /\ i.f \notin {0, 7} => i.tw
        /\ i.c # NULL => i.f # 4
        /\ i.n = NULL => i.c = NULL /\ i.f = 0 /\ i.tw}

ResumeInputs ==
    {i \in [n : SessArgs, f : 0..2, tw : BOOLEAN] :
        /\ i.f = 1 => i.tw
        /\ i.n = NULL => i.f = 0 /\ i.tw}

BranchInputs ==
    {i \in [b : BranchArgs \cup {NULL}, f : 0..2] : i.b = NULL => i.f = 0}

SaveInputs ==
    {i \in [b : BranchArgs \cup {NULL}, f : 0..3, co : BOOLEAN, del : BOOLEAN,
            wr : BOOLEAN, tw : BOOLEAN] :
        /\ i.f # 3 => i.co
        /\ i.f \in {1, 2} => i.del
        /\ i.f # 0 => i.wr /\ i.tw
        /\ i.b = NULL => i.f = 0 /\ i.del /\ i.wr /\ i.tw}

ExitInputs ==
    {i \in [o : ExitOptions, yes : BOOLEAN, f : 0..2, st : BOOLEAN, rest : BOOLEAN] :
        /\ i.o \in {"--force", "--keep", "--save"} => i.yes
        /\ i.o = "--no-save" \/ i.f = 1 => ~i.rest
        /\ ~i.st => i.yes /\ ~i.rest /\ i.f # 1}

PurgeInputs == [n : SessArgs]

RecoverInputs == {i \in [n : SessArgs, f : 0..3] : i.n = NULL => i.f = 0}

RenameInputs ==
    {i \in [old : SessArgs, new : SessArgs, f : 0..1] :
        i.old = NULL \/ i.new = NULL => i.f = 0}

AbortInputs == [n : SessArgs, f : 0..1]

\* Each command, over the inputs I; h: whether the history is kept.
Open(I, h) ==
    /\ Prompt
    /\ \E i \in I :
        LET r == cmd_checkout(Cur, i.n, i.c, now, i.f, i.tw) IN
        /\ Apply(r)
        /\ Ran("open", i.n, r)
        /\ opened' = IF h /\ r.out = "ok" THEN opened \cup {i.n} ELSE opened
        /\ UNCHANGED <<config, now>>

Resume(I) ==
    /\ Prompt
    /\ \E i \in I :
        LET r == cmd_switch(Cur, i.n, now, i.f, i.tw) IN
        /\ Apply(r)
        /\ Ran("resume", i.n, r)
        /\ UNCHANGED <<config, now, opened>>

BranchOff(I) ==
    /\ Prompt
    /\ \E i \in I :
        LET r == cmd_branch(Cur, i.b, i.f) IN
        /\ Apply(r)
        /\ Ran("branch-off", i.b, r)
        /\ UNCHANGED <<config, now, opened>>

SaveBack(I) ==
    /\ Prompt
    /\ \E i \in I :
        LET r == cmd_save(Cur, i.b, now, i.f, i.co, i.del, i.wr, i.tw) IN
        /\ Apply(r)
        /\ Ran("save-back", i.b, r)
        /\ UNCHANGED <<config, now, opened>>

Exit(I) ==
    /\ Prompt
    /\ \E i \in I :
        LET r == cmd_exit(Cur, i.o, config, i.yes, i.f, i.st, i.rest) IN
        /\ Apply(r)
        /\ Ran("exit", i.o, r)
        /\ UNCHANGED <<config, now, opened>>

Purge(I, h) ==
    /\ Prompt
    /\ \E i \in I :
        LET r == cmd_clean(Cur, i.n) IN
        /\ Apply(r)
        /\ Ran("purge", i.n, r)
        /\ opened' = IF ~h \/ r.out # "ok" THEN opened
                     ELSE IF i.n = NULL THEN opened \ dirs ELSE opened \ {i.n}
        /\ UNCHANGED <<config, now>>

Recover(I) ==
    /\ Prompt
    /\ \E i \in I :
        LET r == cmd_recover(Cur, i.n, i.f) IN
        /\ Apply(r)
        /\ Ran("recover", i.n, r)
        /\ UNCHANGED <<config, now, opened>>

Rename(I, h) ==
    /\ Prompt
    /\ \E i \in I :
        LET r == cmd_rename(Cur, i.old, i.new, i.f) IN
        /\ Apply(r)
        /\ Ran("rename", i.old, r)
        /\ opened' = IF h /\ r.out = "ok" /\ i.old \in opened
                     THEN (opened \ {i.old}) \cup {i.new} ELSE opened
        /\ UNCHANGED <<config, now>>

Abort(I, h) ==
    /\ Prompt
    /\ \E i \in I :
        LET r == cmd_abort(Cur, i.n, i.f) IN
        /\ Apply(r)
        /\ Ran("abort", i.n, r)
        /\ opened' = IF ~h \/ r.out # "ok" THEN opened
                     ELSE opened \ {IF i.n = NULL THEN active ELSE i.n}
        /\ UNCHANGED <<config, now>>

\* The user edits the working tree.
Edit ==
    /\ Prompt
    /\ ~dirty
    /\ dirty' = TRUE
    /\ UNCHANGED <<dirs, rec, active, br, on, at, nc, config, now, opened, last>>

\* kaishaku config set <key> <value>.
ConfigSet ==
    /\ Prompt
    /\ \E key \in ConfigKeys, value \in BOOLEAN :
        /\ config' = cmd_config_set(config, key, value, TRUE)
        /\ last' = [op |-> "config", arg |-> key, out |-> "ok"]
    /\ UNCHANGED <<dirs, rec, active, br, on, at, dirty, nc, now, opened>>

\* kaishaku list.
List ==
    /\ Prompt
    /\ LET r == cmd_list(Cur) IN Apply(r) /\ Ran("list", NULL, r)
    /\ UNCHANGED <<config, now, opened>>

\* A record file is lost outside the tool (removed by hand, or by a file
\* system fault): the corruption the commands have to cope with.
Lose ==
    /\ Prompt
    /\ \E n \in dirs, f \in {"session", "head"} :
        /\ rec[n][f] # NULL
        /\ rec' = [rec EXCEPT ![n][f] = NULL]
    /\ UNCHANGED <<dirs, active, br, on, at, dirty, nc, config, now, opened, last>>

\* The prompt is back.
Ack ==
    /\ last.op # "idle"
    /\ last' = Idle
    /\ UNCHANGED <<dirs, rec, active, br, on, at, dirty, nc, config, now, opened>>

\* The inputs in which nothing fails for a reason outside the repository: a
\* merge may still conflict and the checkout after a conflict be refused,
\* exit's commit, stash or reset and a checkout of the original branch may
\* fail, and a commit given to open exists.
OpenCalm == {i \in OpenInputs : i.f = 0 /\ i.tw /\ i.c \in Commits(Cur) \cup {NULL}}

ResumeCalm == {i \in ResumeInputs : i.f = 0 /\ i.tw}

BranchCalm == {i \in BranchInputs : i.f = 0}

SaveCalm == {i \in SaveInputs : i.f \in {0, 3} /\ i.del /\ i.wr /\ i.tw}

\* Inputs that only matter with a session active and with changes present
\* are tried there only.
ExitCalm ==
    {i \in ExitInputs :
        /\ i.st
        /\ active = NULL => i.f = 0
        /\ active = NULL \/ ~dirty => i.yes /\ ~i.rest /\ i.f # 1}

RecoverCalm == {i \in RecoverInputs : i.f = 0}

RenameCalm == {i \in RenameInputs : i.f = 0}

Command(h) ==
    \/ Open(OpenCalm, h)
    \/ Resume(ResumeCalm)
    \/ BranchOff(BranchCalm)
    \/ SaveBack(SaveCalm)
    \/ Exit(ExitCalm)
    \/ Purge(PurgeInputs, h)
    \/ Recover(RecoverCalm)
    \/ Rename(RenameCalm, h)
    \/ Abort(AbortInputs, h)

\* The lifecycle commands with the configuration as shipped (confirm.exit
\* set, auto.stash and auto.save clear).
Next ==
    \/ Command(FALSE)
    \/ Edit
    \/ Ack

Spec == Init /\ [][Next]_vars

\* The same, with the history of opened sessions kept.
NextHistory ==
    \/ Command(TRUE)
    \/ Edit
    \/ Ack

SpecHistory == Init /\ [][NextHistory]_vars

\* Leaving a session under every configuration.
NextConfig ==
    \/ Open(OpenCalm, FALSE)
    \/ Exit(ExitCalm)
    \/ ConfigSet
    \/ Edit
    \/ Ack

SpecConfig == Init /\ [][NextConfig]_vars

\* Sessions whose records get lost.
NextCorrupt ==
    \/ Open(OpenCalm, FALSE)
    \/ Exit(ExitCalm)
    \/ List
    \/ Lose
    \/ Edit
    \/ Ack

SpecCorrupt == Init /\ [][NextCorrupt]_vars

\* Opening sessions when any step of open may fail.
NextPartial ==
    \/ Open(OpenInputs, FALSE)
    \/ Exit(ExitCalm)
    \/ Edit
    \/ Ack

SpecPartial == Init /\ [][NextPartial]_vars

\* -------------------------------------------------------------- claims ---
\* The original_ref a command reads for the active session.
OriginalRef(s) == read_from_file(s, SESSION_FILE(s.active))

\* Whether the handler issued git command cmd on arg with the outcome ok.
Issued(r, cmd, arg, ok) == \E k \in 1..Len(r.cmds) : r.cmds[k] = <<cmd, arg, ok>>

\* The claims about one command are stated at the prompt, over every input
\* of the command, on the state the handler leaves behind.
\* Records, pointer and position of the working tree.
Final(r) == <<r.dirs, r.rec, r.active, r.on, r.at>>

\* C1: after any sequence of completed commands the active pointer is absent
\* or names a session whose record directory exists, that is, a session that
\* was opened and has not been purged or aborted since.
C1_ActiveNamesLiveSession ==
    active = NULL \/ (active \in dirs /\ active \in opened)

\* C2: when abort is applied to the active session and the checkout of
\* original_ref succeeds, the session's directory and record files are gone,
\* the active pointer is empty and the working tree is on original_ref.
C2_AbortRemovesRecord ==
    Prompt => \A i \in AbortInputs :
        LET r == cmd_abort(Cur, i.n, i.f)
            original_branch == OriginalRef(Cur) IN
        (/\ active # NULL
         /\ i.n \in {NULL, active}
         /\ Issued(r, "checkout", original_branch, TRUE)
         /\ r.out = "ok")
        => /\ active \notin r.dirs
           /\ r.rec[active] = NoFiles
           /\ r.active = NULL
           /\ r.on = original_branch

\* C3: with session a active, abort without an argument and abort(a) leave
\* the same records, the same active pointer and the same position of the
\* working tree.
C3_AbortDefaultsToActive ==
    Prompt /\ active # NULL =>
        \A f \in 0..1 :
            /\ Final(cmd_abort(Cur, NULL, f)) = Final(cmd_abort(Cur, active, f))
            /\ cmd_abort(Cur, NULL, f).code = cmd_abort(Cur, active, f).code

C3_Witness ==
    /\ last = [op |-> "abort", arg |-> NULL, out |-> "ok"]
    /\ active = NULL
    /\ on \in BranchNames
    /\ \E n \in dirs : rec[n]["session"] = on

\* C4: open(n, c) from branch b, when every git command and every write
\* succeeds, records session = b and head = c (the current HEAD when c is
\* omitted), makes n the active session and leaves HEAD detached at c.
C4_OpenRecordsAndDetaches ==
    Prompt => \A i \in OpenInputs :
        LET r == cmd_checkout(Cur, i.n, i.c, now, i.f, i.tw)
            c == IF i.c = NULL THEN at ELSE i.c IN
        (on # NULL /\ i.n # NULL /\ r.out = "ok")
        => /\ i.n \in r.dirs
           /\ r.rec[i.n]["session"] = on
           /\ r.rec[i.n]["head"] = c
           /\ r.active = i.n
           /\ r.on = NULL
           /\ r.at = c

C4_Witness ==
    /\ last.op = "open" /\ last.out = "ok"
    /\ active = last.arg
    /\ active \in dirs
    /\ rec[active]["session"] \in BranchNames
    /\ rec[active]["head"] = at
    /\ on = NULL

\* C5: open(n) for a session n that exists and is well formed fails with an
\* error and leaves the records, the active pointer and the working tree as
\* they were.
C5_OpenRefusesExisting ==
    Prompt => \A i \in OpenInputs :
        LET r == cmd_checkout(Cur, i.n, i.c, now, i.f, i.tw) IN
        (/\ i.n \in dirs
         /\ rec[i.n]["session"] # NULL
         /\ rec[i.n]["head"] # NULL)
        => /\ r.out = "error"
           /\ Final(r) = Final(Cur)

\* C6: resume(n) right after open(n) leaves head_ref and original_ref of n as
\* open wrote them, changes nothing in the records but n's timestamp, and n
\* is still the active session.
C6_ResumeAfterOpen ==
    (last.op = "open" /\ last.out = "ok") =>
        \A i \in ResumeInputs : \A t \in 0..MaxTime :
            LET n == last.arg
                r == cmd_switch(Cur, i.n, t, i.f, i.tw) IN
            i.n = n
            => /\ r.dirs = dirs
               /\ \A m \in SessNames : \A x \in Fields \ {"time"} : r.rec[m][x] = rec[m][x]
               /\ \A m \in SessNames \ {n} : r.rec[m] = rec[m]
               /\ r.active = n
               /\ (i.f = 0 => r.out = "ok")

C6_Witness ==
    /\ last.op = "open" /\ last.out = "ok"
    /\ \E t \in 0..MaxTime :
        LET r == cmd_switch(Cur, last.arg, t, 0, TRUE) IN
        /\ r.out = "ok"
        /\ r.rec[last.arg]["time"] # rec[last.arg]["time"]
        /\ r.rec[last.arg]["head"] = rec[last.arg]["head"]

\* C7: when the merge of save-back(t) succeeds and the deletion of t
\* succeeds, no branch t is left and the working tree is on original_ref;
\* the deletion succeeds whenever original_ref is a branch and git does not
\* fail for an outside reason.
C7_SaveBackDeletesBranch ==
    Prompt => \A i \in SaveInputs :
        LET r == cmd_save(Cur, i.b, now, i.f, i.co, i.del, i.wr, i.tw)
            original_branch == OriginalRef(Cur) IN
        (i.b # NULL /\ active # NULL /\ r.out = "ok")
        => /\ Issued(r, "merge", i.b, TRUE)
           /\ Issued(r, "branch -D", i.b, TRUE)
              => r.br[i.b] = NULL /\ r.on = original_branch
           /\ i.del /\ IsBranch(Cur, original_branch)
              => Issued(r, "branch -D", i.b, TRUE)

C7_Witness ==
    /\ last.op = "save-back" /\ last.out = "ok"
    /\ last.arg \in BranchNames
    /\ br[last.arg] = NULL
    /\ active # NULL
    /\ rec[active]["session"] = on

\* C8: when the merge of save-back(t) fails, the tool checks t out, issues no
\* deletion of t and exits with an error: exactly one branch t exists, the
\* working tree is on it and head_ref is not rewritten.
C8_MergeFailureKeepsBranch ==
    Prompt => \A i \in SaveInputs :
        LET r == cmd_save(Cur, i.b, now, i.f, i.co, i.del, i.wr, i.tw) IN
        (i.b # NULL /\ Issued(r, "merge", i.b, FALSE))
        => /\ r.out = "error"
           /\ \A k \in 1..Len(r.cmds) : r.cmds[k][1] # "branch -D"
           /\ r.br[i.b] # NULL
           /\ r.on = i.b
           /\ r.rec = rec

\* C9: after a successful save-back by session s, head_ref of s is the
\* literal "HEAD", whatever the session and the branch are called, and no
\* other session's record is written.
C9_SaveBackMarksOwnHead ==
    Prompt => \A i \in SaveInputs :
        LET r == cmd_save(Cur, i.b, now, i.f, i.co, i.del, i.wr, i.tw) IN
        (i.b # NULL /\ active # NULL /\ r.out = "ok" /\ i.del /\ i.wr /\ i.tw)
        => /\ r.rec[active]["head"] = "HEAD"
           /\ \A m \in SessNames \ {active} : r.rec[m] = rec[m]

\* The configuration as shipped, with auto.stash set and with auto.save set:
\* with the options, every mode of exit.
ExitConfigs ==
    {config, [config EXCEPT !["auto.stash"] = TRUE], [config EXCEPT !["auto.save"] = TRUE]}

\* C10: exit, in every mode in which it completes, removes no record file
\* and leaves original_ref and head_ref as they were, so the session can be
\* resumed; it only clears the active pointer and moves the working tree to
\* original_ref.
C10_ExitKeepsRecord ==
    Prompt => \A i \in ExitInputs : \A cfg \in ExitConfigs :
        LET r == cmd_exit(Cur, i.o, cfg, i.yes, i.f, i.st, i.rest)
            original_branch == OriginalRef(Cur) IN
        r.out = "ok"
        => /\ r.dirs = dirs
           /\ r.rec = rec
           /\ r.active = NULL
           /\ IsBranch(Cur, original_branch) => r.on = original_branch
           /\ rec[active]["head"] # NULL => cmd_switch(r, active, now, 0, TRUE).active = active

C10_Witness ==
    /\ last.op = "exit" /\ last.out = "ok"
    /\ active = NULL
    /\ on \in BranchNames
    /\ \E n \in dirs : rec[n]["session"] = on /\ rec[n]["head"] # NULL

\* C11: for every option and configuration, save applies iff the option is
\* --save or auto.save is set and the option is not --no-save; otherwise keep
\* applies iff the option is --keep or auto.stash is set and the option is
\* not --force; with changes present and exit not declined, save commits
\* them, else keep stashes them, else they are discarded by a hard reset;
\* without changes none of the three is issued.
C11_ExitResolution ==
    Prompt /\ active # NULL => \A i \in ExitInputs :
        LET r == cmd_exit(Cur, i.o, config, i.yes, i.f, i.st, i.rest)
            save == i.o = "--save" \/ (config["auto.save"] /\ i.o # "--no-save")
            keep == i.o = "--keep" \/ (config["auto.stash"] /\ i.o # "--force")
            treatment == IF save THEN "commit" ELSE IF keep THEN "stash push" ELSE "reset --hard" IN
        /\ (Issued(r, "status --porcelain", NULL, TRUE) /\ r.out # "aborted")
           => /\ Len(r.cmds) >= 2
              /\ r.cmds[2][1] = treatment
              /\ \A k \in 3..Len(r.cmds) : r.cmds[k][1] = "checkout"
        /\ ~Issued(r, "status --porcelain", NULL, TRUE)
           => \A k \in 1..Len(r.cmds) : r.cmds[k][1] \in {"status --porcelain", "checkout"}

C11_Witness ==
    /\ last = [op |-> "exit", arg |-> "--force", out |-> "ok"]
    /\ config["auto.save"]
    /\ dirty
    /\ nc > 1
    /\ active = NULL

\* C12: when exit prompts (changes present, none of force, keep and save
\* applies, confirm.exit set) and the answer is negative, the active pointer,
\* every record, the position of the working tree and the uncommitted
\* changes are as before and no git command but the status query was issued.
C12_DeclinedExitChangesNothing ==
    Prompt /\ active # NULL /\ OriginalRef(Cur) # NULL /\ dirty => \A i \in ExitInputs :
        LET r == cmd_exit(Cur, i.o, config, i.yes, i.f, i.st, i.rest) IN
        (/\ i.st /\ ~i.yes
         /\ i.o \in {NULL, "--no-save"}
         /\ ~config["auto.stash"]
         /\ i.o = NULL => ~config["auto.save"]
         /\ config["confirm.exit"])
        => /\ r.out = "aborted"
           /\ Final(r) = Final(Cur)
           /\ r.dirty /\ r.br = br /\ r.nc = nc
           /\ \A k \in 1..Len(r.cmds) : r.cmds[k][1] = "status --porcelain"

C12_Witness ==
    /\ last.op = "exit" /\ last.out = "aborted"
    /\ config["confirm.exit"]
    /\ dirty
    /\ active \in dirs
    /\ on = NULL

\* C13: in keep mode with changes present, a failing stash does not abort
\* exit: original_ref is still checked out and the active pointer cleared.
C13_StashFailureIsWarning ==
    Prompt /\ active # NULL /\ dirty => \A i \in ExitInputs :
        LET r == cmd_exit(Cur, i.o, config, i.yes, i.f, i.st, i.rest)
            original_branch == OriginalRef(Cur) IN
        Issued(r, "stash push", NULL, FALSE)
        => /\ r.cmds[Len(r.cmds)] = <<"checkout", original_branch, Resolves(Cur, original_branch)>>
           /\ Resolves(Cur, original_branch)
              => /\ r.out = "ok"
                 /\ r.active = NULL
                 /\ IsBranch(Cur, original_branch) => r.on = original_branch

C13_Witness ==
    /\ last = [op |-> "exit", arg |-> "--keep", out |-> "ok"]
    /\ dirty
    /\ active = NULL
    /\ on \in BranchNames

\* C14: abort(n) succeeds on a corrupted session (session or head record
\* missing), active or not: afterwards n's directory is gone, and when n was
\* the active session the active pointer is cleared.
C14_AbortToleratesCorrupted ==
    Prompt => \A i \in AbortInputs :
        LET n == IF i.n = NULL THEN active ELSE i.n
            r == cmd_abort(Cur, i.n, i.f) IN
        (/\ n \in dirs
         /\ rec[n]["session"] = NULL \/ rec[n]["head"] = NULL
         /\ i.f = 0)
        => /\ r.out = "ok"
           /\ n \notin r.dirs
           /\ active = n => r.active = NULL

\* C15: rename(old, new) with old existing and not active and new not
\* existing succeeds: new holds exactly the records old had, old no longer
\* exists and the active pointer is unchanged.
C15_RenameMovesRecord ==
    Prompt => \A i \in RenameInputs :
        LET r == cmd_rename(Cur, i.old, i.new, i.f) IN
        (/\ i.old \in dirs /\ i.old # active
         /\ i.new \in SessNames \ dirs
         /\ i.f = 0)
        => /\ r.out = "ok"
           /\ r.dirs = (dirs \ {i.old}) \cup {i.new}
           /\ r.rec[i.new] = rec[i.old]
           /\ r.rec[i.old] = NoFiles
           /\ r.active = active

\* C16: for old an existing session that is not active and new unused,
\* rename(old, new) followed by rename(new, old) both succeed and restore the
\* registry: old holds its original records and new does not exist.
C16_RenameRoundTrip ==
    Prompt => \A i \in RenameInputs :
        LET r1 == cmd_rename(Cur, i.old, i.new, i.f)
            r2 == cmd_rename(r1, i.new, i.old, i.f) IN
        (/\ i.old \in dirs /\ i.old # active
         /\ i.new \in SessNames \ dirs
         /\ i.f = 0)
        => /\ r1.out = "ok"
           /\ r2.out = "ok"
           /\ r2.dirs = dirs
           /\ r2.rec = rec

\* C17: list reports as corrupted, and leaves out of the normal listing,
\* every session that lacks its session record or its head record (either
\* one alone suffices); it still lists the other sessions and returns 0.
C17_ListFlagsCorrupted ==
    Prompt => /\ cmd_list(Cur).out = "ok"
              /\ cmd_list(Cur).code = 0
              /\ \A n \in dirs :
                    list_entry(Cur, n) = "corrupted"
                        <=> (rec[n]["session"] = NULL \/ rec[n]["head"] = NULL)

\* C18: purge(n) on an existing session n that is not active succeeds and
\* removes all of n's record files and its directory; the other sessions and
\* the active pointer are unchanged.
C18_PurgeRemovesSession ==
    Prompt => \A i \in PurgeInputs :
        LET r == cmd_clean(Cur, i.n) IN
        (i.n \in dirs /\ i.n # active)
        => /\ r.out = "ok"
           /\ r.dirs = dirs \ {i.n}
           /\ r.rec = [rec EXCEPT ![i.n] = NoFiles]
           /\ r.active = active

\* C19: purge without a name removes every session but the active one,
\* leaves the active session's records and the active pointer as they were,
\* reports the number of sessions removed and does not fail, also when a
\* session is active.
C19_PurgeAllSparesActive ==
    Prompt =>
        LET r == cmd_clean(Cur, NULL) IN
        /\ r.out = "ok"
        /\ r.dirs = dirs \cap {active}
        /\ r.rec = [n \in SessNames |-> IF n = active THEN rec[n] ELSE NoFiles]
        /\ r.active = active
        /\ r.count = Cardinality(dirs \ {active})

\* C20: resume(n) and recover(n) on a session whose head record is the
\* sentinel "HEAD" check out a branch and issue no detached checkout; a
\* detached checkout is issued only when the head record is a commit id.
C20_SentinelChecksOutBranch ==
    Prompt =>
        /\ \A i \in ResumeInputs :
            LET r == cmd_switch(Cur, i.n, now, i.f, i.tw) IN
            (i.n \in dirs /\ rec[i.n]["head"] = "HEAD")
            => /\ \A k \in 1..Len(r.cmds) : r.cmds[k][1] # "checkout --detach"
               /\ r.out = "ok" => r.on # NULL
        /\ \A i \in RecoverInputs :
            LET r == cmd_recover(Cur, i.n, i.f) IN
            (i.n \in dirs /\ rec[i.n]["head"] = "HEAD")
            => /\ \A k \in 1..Len(r.cmds) : r.cmds[k][1] # "checkout --detach"
               /\ r.out = "ok" => r.on # NULL

\* C21: recover(n) on a well-formed session that is not active checks
\* whether the branch named by n's session record resolves; when it does not,
\* a branch of that name is created at the current position; in both cases n
\* becomes the active session and n's head record is checked out.
C21_RecoverVerifiesOriginalRef ==
    Prompt => \A i \in RecoverInputs :
        LET n == i.n
            r == cmd_recover(Cur, n, i.f) IN
        (/\ n \in dirs /\ n # active
         /\ rec[n]["session"] # NULL /\ rec[n]["head"] # NULL
         /\ r.out = "ok")
        => LET original_ref == rec[n]["session"] IN
           /\ Issued(r, "rev-parse --verify", original_ref, Resolves(Cur, original_ref))
           /\ ~Resolves(Cur, original_ref)
              => Issued(r, "checkout -b", original_ref, TRUE) /\ r.br[original_ref] = at
           /\ r.active = n
           /\ Issued(r, "checkout --detach", rec[n]["head"], TRUE)

\* C22: recover(n) is rejected, with the active pointer unchanged and no
\* checkout and no branch creation issued, whenever n's session record or n's
\* head record is missing.
C22_RecoverRejectsCorrupted ==
    Prompt => \A i \in RecoverInputs :
        LET r == cmd_recover(Cur, i.n, i.f) IN
        (i.n \in dirs /\ (rec[i.n]["session"] = NULL \/ rec[i.n]["head"] = NULL))
        => /\ r.out = "error"
           /\ r.active = active
           /\ \A k \in 1..Len(r.cmds) :
                r.cmds[k][1] \notin {"checkout", "checkout --detach", "checkout -b"}

\* C23: each successful open(n), resume(n), save-back (n the active session)
\* and recover(n) writes n's time record with the current time t.
C23_TimestampOnEveryChange ==
    Prompt => \A t \in 0..MaxTime :
        /\ \A i \in OpenInputs :
            LET r == cmd_checkout(Cur, i.n, i.c, t, i.f, i.tw) IN
            (r.out = "ok" /\ i.tw) => r.rec[i.n]["time"] = FormatTime(t)
        /\ \A i \in ResumeInputs :
            LET r == cmd_switch(Cur, i.n, t, i.f, i.tw) IN
            (r.out = "ok" /\ i.tw) => r.rec[i.n]["time"] = FormatTime(t)
        /\ \A i \in SaveInputs :
            LET r == cmd_save(Cur, i.b, t, i.f, i.co, i.del, i.wr, i.tw) IN
            (r.out = "ok" /\ i.tw /\ active \in dirs) => r.rec[active]["time"] = FormatTime(t)
        /\ \A i \in RecoverInputs :
            LET r == cmd_recover(Cur, i.n, i.f) IN
            r.out = "ok" => r.rec[i.n]["time"] = FormatTime(t)

\* C24: branch-off(b) with a session active creates the branch b at the
\* current position and sets the session's head record to "HEAD"; with no
\* active session it fails and creates no branch.
C24_BranchOffCreatesBranch ==
    Prompt => \A i \in BranchInputs :
        LET r == cmd_branch(Cur, i.b, i.f) IN
        i.b # NULL =>
        /\ active = NULL
           => /\ r.out = "error" /\ r.code # 0
              /\ r.br = br /\ r.cmds = << >>
              /\ Final(r) = Final(Cur)
        /\ (active # NULL /\ r.out = "ok")
           => /\ Issued(r, "checkout -b", i.b, TRUE)
              /\ br[i.b] = NULL /\ r.br[i.b] = at /\ r.on = i.b /\ r.at = at
              /\ r.rec[active]["head"] = "HEAD"

C24_Witness ==
    /\ last.op = "branch-off" /\ last.out = "ok"
    /\ active \in dirs /\ on = last.arg /\ br[on] = at
    /\ rec[active]["head"] = "HEAD"

\* The handler has exited nonzero and left the records, the pointer and the
\* state of the repository as they were.
Refused(r) ==
    /\ r.code # 0
    /\ r.dirs = dirs /\ r.rec = rec /\ r.active = active
    /\ r.br = br /\ r.on = on /\ r.at = at /\ r.dirty = dirty /\ r.nc = nc

\* C25: every command that fails on a violated precondition exits nonzero and
\* leaves records, pointer and repository unchanged: no active session for
\* branch-off, save-back, exit and abort without an argument; session not
\* found for resume, recover, rename, purge and abort; target exists for
\* rename; session already active for recover, rename and purge.
C25_RefusalsChangeNothing ==
    Prompt =>
    /\ active = NULL =>
        /\ \A i \in BranchInputs : i.b # NULL => Refused(cmd_branch(Cur, i.b, i.f))
        /\ \A i \in SaveInputs : i.b # NULL =>
               Refused(cmd_save(Cur, i.b, now, i.f, i.co, i.del, i.wr, i.tw))
        /\ \A i \in ExitInputs : \A cfg \in ExitConfigs :
               Refused(cmd_exit(Cur, i.o, cfg, i.yes, i.f, i.st, i.rest))
        /\ \A i \in AbortInputs : i.n = NULL => Refused(cmd_abort(Cur, NULL, i.f))
    /\ \A i \in ResumeInputs : (i.n # NULL /\ i.n \notin dirs) =>
           Refused(cmd_switch(Cur, i.n, now, i.f, i.tw))
    /\ \A i \in RecoverInputs : (i.n # NULL /\ (i.n \notin dirs \/ i.n = active)) =>
           Refused(cmd_recover(Cur, i.n, i.f))
    /\ \A i \in RenameInputs :
           (/\ i.old # NULL /\ i.new # NULL
            /\ (i.old \notin dirs \/ i.new \in dirs \/ i.old = active)) =>
           Refused(cmd_rename(Cur, i.old, i.new, i.f))
    /\ \A i \in PurgeInputs : (i.n # NULL /\ (i.n \notin dirs \/ i.n = active)) =>
           Refused(cmd_clean(Cur, i.n))
    /\ \A i \in AbortInputs : (i.n # NULL /\ i.n \notin dirs) =>
           Refused(cmd_abort(Cur, i.n, i.f))

C25_Witness ==
    /\ last.op = "recover" /\ last.out = "error"
    /\ last.arg = active /\ active \in dirs
    /\ rec[active]["session"] # NULL /\ rec[active]["head"] # NULL

\* C26: open, resume, branch-off, save-back, recover and rename, invoked
\* without a required argument, show the usage, exit nonzero and change
\* nothing; the exit code is 0 exactly when the command succeeded.
C26_MissingArgumentExitsNonzero ==
    Prompt =>
    \A r \in {cmd_checkout(Cur, NULL, NULL, now, 0, TRUE),
              cmd_switch(Cur, NULL, now, 0, TRUE),
              cmd_branch(Cur, NULL, 0),
              cmd_save(Cur, NULL, now, 0, TRUE, TRUE, TRUE, TRUE),
              cmd_recover(Cur, NULL, 0)}
          \cup {cmd_rename(Cur, i.old, i.new, 0) :
                   i \in {j \in RenameInputs : j.old = NULL \/ j.new = NULL}} :
        /\ r.out = "usage"
        /\ Refused(r)
        /\ r.code = 0 <=> r.out = "ok"

\* C27: open(n) of a new name writes its records in an order that keeps a
\* partial failure detectable. Whatever step the command stops at, n's head
\* record exists only if n's session record exists, the active pointer names
\* n only if both exist, and the detaching checkout is issued only after the
\* session record, the head record and the pointer are written.
C27_OpenWritesInOrder ==
    Prompt => \A i \in OpenInputs :
        LET n == i.n
            r == cmd_checkout(Cur, n, i.c, now, i.f, i.tw) IN
        (n # NULL /\ n \notin dirs) =>
        /\ r.rec[n]["head"] # NULL => r.rec[n]["session"] # NULL
        /\ r.active = n => r.rec[n]["session"] # NULL /\ r.rec[n]["head"] # NULL
        /\ (\E k \in 1..Len(r.cmds) : r.cmds[k][1] = "checkout --detach")
           => /\ r.rec[n]["session"] # NULL /\ r.rec[n]["head"] # NULL
              /\ r.active = n
        /\ r.out = "ok" => Issued(r, "checkout --detach", r.rec[n]["head"], TRUE)

C27_Witness ==
    /\ last.op = "open" /\ last.out = "error"
    /\ last.arg \in dirs /\ active # last.arg
    /\ rec[last.arg]["session"] # NULL /\ rec[last.arg]["head"] = NULL

\* C28: every session record written by open names the branch the work
\* started from, also when open is run with another session active and the
\* tree detached; consequently a completed exit leaves the tree on a branch.
C28_OriginalRefIsBranch ==
    Prompt =>
    /\ \A i \in OpenInputs :
        LET r == cmd_checkout(Cur, i.n, i.c, now, i.f, i.tw) IN
        (i.n # NULL /\ r.out = "ok") => IsBranch(Cur, r.rec[i.n]["session"])
    /\ \A i \in ExitInputs :
        LET r == cmd_exit(Cur, i.o, config, i.yes, i.f, i.st, i.rest) IN
        (active # NULL /\ r.out = "ok" /\ r.active = NULL) => IsBranch(r, r.on)

\* C29: in exit the changes are handled (commit, stash or hard discard)
\* before original_ref is checked out, and the pointer is cleared only after
\* that checkout succeeded; when the commit, the hard discard or the checkout
\* fails, exit stops with the pointer still naming the session and the
\* records unchanged.
C29_ExitOrder ==
    Prompt => \A i \in ExitInputs :
        LET r == cmd_exit(Cur, i.o, config, i.yes, i.f, i.st, i.rest)
            N == Len(r.cmds)
            original_ref == rec[active]["session"] IN
        (active \in dirs /\ original_ref # NULL) =>
        /\ \A j, k \in 1..N :
             (/\ r.cmds[j][1] \in {"commit", "stash push", "reset --hard"}
              /\ r.cmds[k][1] = "checkout") => j < k
        /\ (dirty /\ i.st /\ \E k \in 1..N : r.cmds[k][1] = "checkout")
           => \E j \in 1..N : r.cmds[j][1] \in {"commit", "stash push", "reset --hard"}
        /\ r.active # active
           => /\ r.active = NULL
              /\ r.cmds[N] = <<"checkout", original_ref, TRUE>>
        /\ (\E k \in 1..N : /\ r.cmds[k][1] \in {"commit", "reset --hard", "checkout"}
                            /\ ~r.cmds[k][3])
           => /\ r.out = "error" /\ r.code = 1
              /\ r.active = active /\ r.rec = rec /\ r.dirs = dirs

C29_Witness ==
    /\ last.op = "exit" /\ last.out = "error"
    /\ active \in dirs /\ rec[active]["session"] \in BranchNames
    /\ on = NULL /\ dirty

\* C30: branch-off and save-back, successful or failed, never change the
\* active pointer or the session record (original_ref) of any session.
C30_BranchAndSaveKeepOrigin ==
    Prompt =>
    /\ \A i \in BranchInputs :
        LET r == cmd_branch(Cur, i.b, i.f) IN
        /\ r.active = active
        /\ r.dirs = dirs
        /\ \A n \in SessNames : r.rec[n]["session"] = rec[n]["session"]
    /\ \A i \in SaveInputs :
        LET r == cmd_save(Cur, i.b, now, i.f, i.co, i.del, i.wr, i.tw) IN
        /\ r.active = active
        /\ r.dirs = dirs
        /\ \A n \in SessNames : r.rec[n]["session"] = rec[n]["session"]

C30_Witness ==
    /\ last.op \in {"branch-off", "save-back"}
    /\ active \in dirs /\ rec[active]["session"] \in BranchNames
    /\ on \in BranchArgs /\ on # rec[active]["session"]

====
